---- MODULE Spec2Model ----
(***************************************************************************)
(* Model of the analysis task coordinator (AnalyzerQueue) of kapkap:       *)
(* add_task admissions, the credit ledger of DatabaseManager and the       *)
(* process_queue drain loop, at the granularity of asyncio suspension      *)
(* points (every real await is a separate step).                           *)
(***************************************************************************)
EXTENDS Integers, Sequences, FiniteSets, Bags, TLC

\* ------------------------------------------------------------------------
\* Bounds of the model
\* ------------------------------------------------------------------------
NumUsers == 2
NumTokens == 2
\* add_task calls in a behaviour of Spec
MaxSubmits == 3
\* add_task calls in a behaviour of ShortSpec
MaxShortSubmits == 2
\* add_task calls in the behaviours checked for liveness
MaxLiveSubmits == 2
\* largest transaction count of a holder record
MaxTx == 2
\* largest number of holders handed to the risk scorer
MaxHolders == 10
\* longest holder list handed to the cluster finder and the pattern detectors
MaxBatch == 5
MaxScore == 110
MaxStamped == 3
MaxPaired == 3
MaxTransfers == 2
MaxFound == 52
MaxDropped == 2

Users == 1..NumUsers
Tokens == 1..NumTokens
Sids == 1..MaxSubmits
Kinds == {"quick", "deep"}

\* balances a requester can start with: the credit of a new user, and enough
\* for two deep analyses and a quick one
InitBalances == {1, 11}

\* wallet ages in days and balance percentages, on both sides of the
\* thresholds of the connection weight (1 and 7 days, 1 and 5 percent)
AgeDays == {0, 1, 7}
BalancePercents == {0, 1, 5}

\* ------------------------------------------------------------------------
\* Helpers translated from the source
\* ------------------------------------------------------------------------
None == [none |-> TRUE]

\* credits_required = 5 if analysis_type == "deep" else 1
CreditsRequired(analysis_type) == IF analysis_type = "deep" THEN 5 ELSE 1

\* the chat a requester writes from (a private chat has the user's id)
ChatsOf(user_id) == {user_id}

\* a balance test that lets every call through
InsufficientNever(balance, credits_required) == FALSE

\* db_manager.get_user(...)['credits'] < credits_required
Insufficient(balance, credits_required) == balance < credits_required

\* DatabaseManager.use_credit: the balance after a successful deduction
Deduct(balance, amount) == balance - amount

\* DatabaseManager.add_credits: the balance after a successful addition
AddCredits(balance, amount) == balance + amount

\* the record add_task stores in active_tokens
NewRecord(user_id, chat_id, analysis_type) ==
    [users |-> {user_id},
     results_sent |-> {},
     credits_deducted |-> {user_id},
     analysis_type |-> analysis_type,
     chat_ids |-> {<<user_id, chat_id>>}]

\* the record process_queue stores when the token has none
WorkerRecord(user_id, analysis_type) ==
    [users |-> {user_id},
     results_sent |-> {},
     credits_deducted |-> {},
     analysis_type |-> analysis_type,
     chat_ids |-> {}]

\* current_analysis['users'].add(user_id); current_analysis['chat_ids'][user_id] = chat_id
AttachUser(rec, user_id, chat_id) ==
    IF user_id \in rec.results_sent
    THEN rec
    ELSE [rec EXCEPT !.users = @ \cup {user_id},
                     !.chat_ids = {p \in @ : p[1] # user_id} \cup {<<user_id, chat_id>>}]

\* the type test always taking the "different analysis type" branch
SameAnalysisNever(current_type, analysis_type) == FALSE

\* if current_type == analysis_type
SameAnalysis(current_type, analysis_type) == current_type = analysis_type

\* if not self.processing: asyncio.create_task(self.process_queue())
ShouldSpawn(proc) == ~proc

\* self.queue.pop() in place of popleft()
PopIndexRight(q) == Len(q)

\* self.queue.popleft()
PopIndex(q) == 1

RemoveAt(q, i) == [j \in 1..(Len(q) - 1) |-> IF j < i THEN q[j] ELSE q[j + 1]]

\* for wait_user_id in waiting_users: the set iterator raises RuntimeError
\* when the set changed size since the iteration began
SetChanged(live, it_size) == Cardinality(live) # it_size

\* process_queue entered without the flag test and without the lock
EntryDecisionUnguarded(proc, locked, waiting) == "enter"

\* entry of process_queue: "return" on the processing flag, wait for the
\* analysis_lock when it is held, otherwise enter the loop
EntryDecision(proc, locked, waiting) ==
    IF ~waiting /\ proc THEN "return"
    ELSE IF locked THEN "wait"
    ELSE "enter"

\* the flag left set when the loop ends
FlagAfterLoopStuck == TRUE

\* self.processing after the while loop has ended
FlagAfterLoop == FALSE

\* dict.get(key, default)
Get(d, key, default) == IF key \in DOMAIN d THEN d[key] ELSE default

\* TokenAnalyzer.analyze_token: the dictionary it returns. It never raises:
\* an address that is not a token contract ("not_a_token") and any exception
\* of a fetch ("fetch_error") both come back as an error dictionary
AnalyzeOutcomes == {"ok", "not_a_token", "fetch_error"}
AnalyzeToken(outcome) ==
    IF outcome = "ok"
    THEN [contract_info |-> "info"]
    ELSE [error |-> TRUE, message |-> outcome]

\* lines 362-370: complete_analysis, assembled with analysis.get(...)
CompleteAnalysis(token_address, analysis_type, analysis) ==
    [token_address |-> token_address,
     contract_info |-> Get(analysis, "contract_info", "empty"),
     analysis_type |-> analysis_type]

\* the local variables of a process_queue coroutine inside its loop; got,
\* refund and notices are history: what the task has delivered, credited
\* back and told its initiator so far
IdleDrain == [pc |-> "none", task |-> None, analysis |-> None,
              report |-> None, rid |-> 0,
              it_size |-> 0, it_seen |-> {}, cur |-> 0, notice |-> "none",
              got |-> {}, refund |-> 0, notices |-> {}]

\* history records of what a step did: nothing, a step of an add_task call
\* (ret is "pending" when the call is suspended, else what it returned), the
\* entry of a process_queue coroutine, the end of a task
NoEvent == [type |-> "none"]

StartEvent(dec) == [type |-> "start", decision |-> dec]

CallEvent(path, c, paid, ret) ==
    [type |-> "call", path |-> path, user |-> c.user_id,
     token |-> c.token_address, kind |-> c.analysis_type, paid |-> paid,
     ret |-> ret]

TaskEvent(res, dr, wv) ==
    [type |-> "task", res |-> res, user |-> dr.task.user_id,
     kind |-> dr.task.analysis_type, paid |-> dr.task.paid,
     refund |-> dr.refund, got |-> dr.got, notices |-> dr.notices, wave |-> wv]

VARIABLES
    queue,            \* self.queue
    processing,       \* self.processing
    current_task,     \* self.current_task
    active_tokens,    \* self.active_tokens: token -> id of its record, 0 when absent
    records,          \* the record objects active_tokens and the fan-out loop point to
    analysis_results, \* self.analysis_results
    analysis_cache,   \* self.analysis_cache
    analysis_lock,    \* self.analysis_lock
    credits,          \* users.credits in the database
    calls,            \* add_task coroutines suspended in the queued-notice send
    created,          \* process_queue tasks created and not yet run
    lockwait,         \* process_queue coroutines waiting for analysis_lock
    running,          \* process_queue coroutines inside "async with analysis_lock"
    nsub,             \* history: number of add_task calls made
    ntok,             \* history: number of distinct tokens submitted
    nusr,             \* history: number of distinct requesters seen
    nadm,             \* history: number of tasks appended to the queue
    max_started,      \* history: latest task number among the started tasks
    wave,             \* history: per unfinished task, requesters attached to its record
    event             \* history: what the last step did

vars == <<queue, processing, current_task, active_tokens, records,
          analysis_results, analysis_cache, analysis_lock, credits, calls,
          created, lockwait, running, nsub, ntok, nusr, nadm, max_started,
          wave, event>>

coordVars == <<queue, processing, current_task, active_tokens, records,
               analysis_results, analysis_cache, analysis_lock, created,
               lockwait, running>>
histWorker == <<max_started>>

\* AnalyzerQueue.__init__
Init ==
    /\ queue = <<>>
    /\ processing = FALSE
    /\ current_task = None
    /\ active_tokens = [t \in Tokens |-> 0]
    /\ records = [r \in Sids |-> None]
    /\ analysis_results = [u \in Users |-> None]
    /\ analysis_cache = {}
    /\ analysis_lock = FALSE
    /\ credits \in [Users -> InitBalances]
    /\ calls = EmptyBag
    /\ created = 0
    /\ lockwait = 0
    /\ running = <<>>
    /\ nsub = 0
    /\ ntok = 0
    /\ nusr = 0
    /\ nadm = 0
    /\ max_started = 0
    /\ wave = [s \in Sids |-> {}]
    /\ event = NoEvent

\* ------------------------------------------------------------------------
\* Python object lifetime: a record lives while active_tokens or the local
\* variables of a fan-out loop still point to it
\* ------------------------------------------------------------------------
Gc(recs, at, run) ==
    [r \in Sids |->
        IF (\E t \in Tokens : at[t] = r) \/ (\E i \in 1..Len(run) : run[i].rid = r)
        THEN recs[r] ELSE None]

\* the task dictionary of add_task; id and paid are history: the number of
\* the append (0 until appended), the credits the call deducted
NewTask(token_address, chat_id, user_id, analysis_type) ==
    [id |-> 0, token_address |-> token_address, chat_id |-> chat_id,
     user_id |-> user_id, analysis_type |-> analysis_type, paid |-> 0]

Max(a, b) == IF a > b THEN a ELSE b

\* ------------------------------------------------------------------------
\* AnalyzerQueue.add_task
\* ------------------------------------------------------------------------

\* lines 173-205: second balance check, deduction, append, new record, spawn.
\* cr is the ledger as the call has left it so far.
Admit(c, cr, use_ok) ==
    LET cost == CreditsRequired(c.analysis_type)
        u == c.user_id
        id == nadm + 1
    IN  IF Insufficient(cr[u], cost) \/ ~use_ok
        THEN /\ credits' = cr
             /\ event' = CallEvent("new", c, c.paid, "false")
             /\ UNCHANGED <<coordVars, histWorker, nadm, wave>>
        ELSE /\ credits' = [cr EXCEPT ![u] = Deduct(@, cost)]
             /\ nadm' = id
             /\ queue' = Append(queue, [c EXCEPT !.id = id, !.paid = @ + cost])
             /\ active_tokens' = [active_tokens EXCEPT ![c.token_address] = id]
             /\ created' = IF ShouldSpawn(processing) THEN created + 1 ELSE created
             /\ records' = Gc([records EXCEPT ![id] =
                                  NewRecord(u, c.chat_id, c.analysis_type)],
                              active_tokens', running)
             /\ wave' = [wave EXCEPT ![id] = {u}]
             /\ event' = CallEvent("new", c, c.paid + cost, "true")
             /\ UNCHANGED <<processing, current_task, analysis_results,
                            analysis_cache, analysis_lock, lockwait, running,
                            histWorker>>

\* lines 106-162: the call up to its first suspension (or to its return).
\* Tokens and requesters are numbered in the order of their first call.
add_task(token_address, chat_id, user_id, analysis_type, use_ok1, use_ok2) ==
    /\ token_address <= ntok + 1
    /\ user_id <= nusr + 1
    /\ nsub' = nsub + 1
    /\ ntok' = Max(ntok, token_address)
    /\ nusr' = Max(nusr, user_id)
    /\ LET cost == CreditsRequired(analysis_type)
           rid0 == active_tokens[token_address]
           c == NewTask(token_address, chat_id, user_id, analysis_type)
       IN  IF rid0 # 0 /\ SameAnalysis(records[rid0].analysis_type, analysis_type)
           THEN \* same analysis type is running: add user to waiting list
                /\ records' = [records EXCEPT ![rid0] = AttachUser(@, user_id, chat_id)]
                /\ wave' = [wave EXCEPT ![rid0] = @ \cup {user_id}]
                /\ event' = CallEvent("attach", c, 0, "true")
                /\ UNCHANGED <<queue, processing, current_task, active_tokens,
                               analysis_results, analysis_cache, analysis_lock,
                               credits, calls, created, lockwait, running,
                               histWorker, nadm>>
           ELSE IF rid0 # 0 /\ (Insufficient(credits[user_id], cost) \/ ~use_ok1)
           THEN \* different analysis type, first check or deduction fails
                /\ event' = CallEvent("new", c, 0, "false")
                /\ UNCHANGED <<coordVars, credits, calls, histWorker, nadm, wave>>
           ELSE LET cr == IF rid0 # 0
                          THEN [credits EXCEPT ![user_id] = Deduct(@, cost)]
                          ELSE credits
                    c1 == [c EXCEPT !.paid = IF rid0 # 0 THEN cost ELSE 0]
                IN  IF Len(queue) > 0
                    THEN \* suspended in the "Analysis Request Queued" send
                         /\ calls' = calls (+) SetToBag({c1})
                         /\ credits' = cr
                         /\ event' = CallEvent("new", c1, c1.paid, "pending")
                         /\ UNCHANGED <<coordVars, histWorker, nadm, wave>>
                    ELSE /\ calls' = calls
                         /\ Admit(c1, cr, use_ok2)

\* lines 164-205: the call resumed after the queued-notice send
add_task_resume(c, use_ok) ==
    /\ BagIn(c, calls)
    /\ calls' = calls (-) SetToBag({c})
    /\ UNCHANGED <<nsub, ntok, nusr>>
    /\ Admit(c, credits, use_ok)

\* ------------------------------------------------------------------------
\* AnalyzerQueue.process_queue
\* ------------------------------------------------------------------------

\* every tail below sets exactly these variables:
\*   running, records, active_tokens, current_task, analysis_results,
\*   credits, wave, event

\* a cleanup that leaves the record in place
CleanupNever(at, token_address) == at

\* self.active_tokens.pop(token_address, None)
Cleanup(at, token_address) == [at EXCEPT ![token_address] = 0]

\* lines 445-452, finally: cleanup of the token's record, then asyncio.sleep(0.1)
Finally(i, dr, recs, res) ==
    /\ active_tokens' = Cleanup(active_tokens, dr.task.token_address)
    /\ current_task' = None
    /\ running' = [running EXCEPT ![i] = [IdleDrain EXCEPT !.pc = "sleep"]]
    /\ records' = Gc(recs, active_tokens', running')
    /\ event' = TaskEvent(res, dr, wave[dr.task.id])
    /\ wave' = [wave EXCEPT ![dr.task.id] = {}]
    /\ UNCHANGED <<analysis_results, credits>>

\* lines 403-427: except Exception as analysis_error
FailurePath(i, dr, recs) ==
    LET task == dr.task
        arid == active_tokens[task.token_address]
        cost == CreditsRequired(task.analysis_type)
        dr0 == [dr EXCEPT !.rid = 0, !.it_size = 0, !.it_seen = {}, !.cur = 0,
                          !.report = None]
    IN  /\ UNCHANGED <<active_tokens, current_task, analysis_results, wave>>
        /\ event' = NoEvent
        /\ IF arid # 0 /\ task.user_id \in recs[arid].credits_deducted
           THEN \E res \in {"ok", "fail", "slow"} :
                  IF res = "slow"
                  THEN \* add_credits is suspended in its retry back-off
                       /\ running' = [running EXCEPT ![i] =
                                         [dr0 EXCEPT !.pc = "refund_retry"]]
                       /\ records' = Gc(recs, active_tokens, running')
                       /\ UNCHANGED credits
                  ELSE /\ credits' = IF res = "ok"
                                     THEN [credits EXCEPT ![task.user_id] =
                                              AddCredits(@, cost)]
                                     ELSE credits
                       /\ running' = [running EXCEPT ![i] =
                                         [dr0 EXCEPT !.pc = "notify",
                                                     !.notice = "refunded",
                                                     !.refund = IF res = "ok"
                                                                THEN @ + cost
                                                                ELSE @]]
                       /\ records' = Gc([recs EXCEPT ![arid].credits_deducted =
                                            @ \ {task.user_id}],
                                        active_tokens, running')
           ELSE \* not marked as debited (or no record): straight to the re-raise
                /\ running' = [running EXCEPT ![i] =
                                  [dr0 EXCEPT !.pc = "notify"]]
                /\ records' = Gc(recs, active_tokens, running')
                /\ UNCHANGED credits

\* a loop that hands every requester of the record to each of its steps
WaitingAll(rec, it_seen) == rec.users

\* lines 385-386: the requesters the loop has still to serve: those the set
\* iterator has not yet yielded and that are not in results_sent
Waiting(rec, it_seen) == (rec.users \ it_seen) \ rec.results_sent

\* lines 385-401: the next step of "for wait_user_id in waiting_users"
FanNext(i, dr, recs) ==
    LET rec == recs[dr.rid]
        todo == Waiting(rec, dr.it_seen)
    IN  IF SetChanged(rec.users, dr.it_size)
        THEN FailurePath(i, dr, recs)
        ELSE IF todo = {}
        THEN Finally(i, dr, recs, "ok")
        ELSE \E u \in todo :
               /\ analysis_results' = [analysis_results EXCEPT ![u] = dr.report]
               /\ running' = [running EXCEPT ![i] =
                                 [dr EXCEPT !.pc = "deliver", !.cur = u,
                                            !.it_seen = @ \cup {u}]]
               /\ records' = Gc(recs, active_tokens, running')
               /\ event' = NoEvent
               /\ UNCHANGED <<active_tokens, current_task, credits, wave>>

\* lines 308-347 and 454: the head of the while loop, up to the suspension in
\* the start-notice send and the two run_in_executor calls (nothing the
\* coordinator owns changes between these awaits, they are one position);
\* run is the list of coroutines with coroutine i at the loop head
LoopHead(run, i) ==
    IF queue = <<>>
    THEN /\ processing' = FlagAfterLoop
         /\ analysis_lock' = FALSE
         /\ running' = RemoveAt(run, i)
         /\ UNCHANGED <<queue, current_task, active_tokens, records,
                        max_started>>
    ELSE LET k == PopIndex(queue)
             task == queue[k]
             tok == task.token_address
         IN  /\ queue' = RemoveAt(queue, k)
             /\ current_task' = task
             /\ processing' = TRUE
             /\ analysis_lock' = TRUE
             /\ max_started' = Max(max_started, task.id)
             /\ running' = [run EXCEPT ![i] =
                               [IdleDrain EXCEPT !.pc = "analyze", !.task = task]]
             /\ IF active_tokens[tok] = 0
                THEN /\ active_tokens' = [active_tokens EXCEPT ![tok] = task.id]
                     /\ records' = [records EXCEPT ![task.id] =
                                       WorkerRecord(task.user_id, task.analysis_type)]
                ELSE UNCHANGED <<active_tokens, records>>

\* lines 300-308: a created process_queue task gets to run (waiting = FALSE),
\* or one that waits for analysis_lock finds it free (waiting = TRUE)
process_queue_start(waiting) ==
    /\ IF waiting THEN lockwait > 0 ELSE created > 0
    /\ LET dec == EntryDecision(processing, analysis_lock, waiting)
       IN  /\ event' = StartEvent(dec)
           /\ CASE dec = "return" ->
                     /\ created' = created - 1
                     /\ UNCHANGED <<queue, processing, current_task, active_tokens,
                                    records, analysis_lock, lockwait, running,
                                    max_started>>
                [] dec = "wait" ->
                     /\ ~waiting
                     /\ created' = created - 1
                     /\ lockwait' = lockwait + 1
                     /\ UNCHANGED <<queue, processing, current_task, active_tokens,
                                    records, analysis_lock, running, max_started>>
                [] dec = "enter" ->
                     /\ created' = IF waiting THEN created ELSE created - 1
                     /\ lockwait' = IF waiting THEN lockwait - 1 ELSE lockwait
                     /\ LoopHead(Append(running, IdleDrain), Len(running) + 1)
    /\ UNCHANGED <<analysis_results, analysis_cache, credits, calls, nsub, ntok,
                   nusr, nadm, wave>>

\* lines 335-401: analyze_token has returned its dictionary for outcome, and
\* analyze_csvs has returned its pair from the newest CSV files of the
\* working directory (csv) or has found none or raised (~csv)
analysis_done(i, outcome, csv) ==
    /\ running[i].pc = "analyze"
    /\ LET analysis == AnalyzeToken(outcome)
           dr == [running[i] EXCEPT !.analysis = analysis]
           task == dr.task
           tok == task.token_address
           report == CompleteAnalysis(tok, task.analysis_type, analysis)
       IN  IF ~csv \/ active_tokens[tok] = 0
           THEN /\ FailurePath(i, dr, records)
                /\ UNCHANGED analysis_cache
           ELSE /\ analysis_cache' =
                      {r \in analysis_cache :
                          ~(r.token_address = tok /\
                            r.analysis_type = task.analysis_type)} \cup {report}
                /\ FanNext(i, [dr EXCEPT !.report = report,
                                         !.rid = active_tokens[tok],
                                         !.it_size = Cardinality(
                                             records[active_tokens[tok]].users)],
                           records)
    /\ UNCHANGED <<queue, processing, analysis_lock, calls, created, lockwait,
                   nsub, ntok, nusr, nadm, max_started>>

\* lines 393-401: _send_analysis_results has returned
deliver_done(i) ==
    /\ running[i].pc = "deliver"
    /\ LET dr == running[i]
       IN  FanNext(i, [dr EXCEPT !.got = @ \cup {dr.cur}],
                   [records EXCEPT ![dr.rid].results_sent = @ \cup {dr.cur}])
    /\ UNCHANGED <<queue, processing, analysis_cache, analysis_lock, calls,
                   created, lockwait, nsub, ntok, nusr, nadm, max_started>>

\* lines 408-426: add_credits has returned after its retries; ok says
\* whether a retry succeeded
refund_retry_done(i, ok) ==
    /\ running[i].pc = "refund_retry"
    /\ LET dr == running[i]
           task == dr.task
           arid == active_tokens[task.token_address]
           cost == CreditsRequired(task.analysis_type)
           marked == arid # 0 /\ task.user_id \in records[arid].credits_deducted
       IN  /\ credits' = IF ok THEN [credits EXCEPT ![task.user_id] =
                                        AddCredits(@, cost)]
                         ELSE credits
           /\ records' = IF marked
                         THEN [records EXCEPT ![arid].credits_deducted =
                                  @ \ {task.user_id}]
                         ELSE records
           /\ running' = [running EXCEPT ![i] =
                             [dr EXCEPT !.pc = "notify",
                                        !.refund = IF ok THEN @ + cost ELSE @,
                                        !.notice = IF marked THEN "refunded"
                                                   ELSE "support"]]
    /\ UNCHANGED <<queue, processing, current_task, active_tokens,
                   analysis_results, analysis_cache, analysis_lock, calls,
                   created, lockwait, nsub, ntok, nusr, nadm, max_started,
                   wave>>
    /\ event' = NoEvent

\* lines 414-449: the refund notice send (if any) and the "Error analyzing
\* token" send of the outer handler have returned; finally
notify_done(i) ==
    /\ running[i].pc = "notify"
    /\ LET dr == running[i]
           sent == IF dr.notice = "none" THEN {"error"} ELSE {dr.notice, "error"}
       IN  Finally(i, [dr EXCEPT !.notices = @ \cup sent], records, "failed")
    /\ UNCHANGED <<queue, processing, analysis_cache, analysis_lock, calls,
                   created, lockwait, nsub, ntok, nusr, nadm, max_started>>

\* lines 452-454 and 308: asyncio.sleep(0.1) has returned; while self.queue
sleep_done(i) ==
    /\ running[i].pc = "sleep"
    /\ LoopHead(running, i)
    /\ UNCHANGED <<analysis_results, analysis_cache, credits, calls, created,
                   lockwait, nsub, ntok, nusr, nadm, wave>>
    /\ event' = NoEvent

\* ------------------------------------------------------------------------
\* AnalyzerQueue.get_queue_status
\* ------------------------------------------------------------------------

\* a status that counts the record objects instead of the tokens in flight
QueueStatusByRecords ==
    [queue_length |-> Len(queue),
     processing |-> processing,
     current_task |-> current_task,
     active_tokens |-> Cardinality({r \in Sids : records[r] # None}),
     cached_analyses |-> Cardinality(analysis_cache)]

\* lines 597-603: the dictionary get_queue_status returns
QueueStatus ==
    [queue_length |-> Len(queue),
     processing |-> processing,
     current_task |-> current_task,
     active_tokens |-> Cardinality({t \in Tokens : active_tokens[t] # 0}),
     cached_analyses |-> Cardinality(analysis_cache)]

StatusEvent(status) == [type |-> "status", status |-> status]

get_queue_status ==
    /\ event' = StatusEvent(QueueStatus)
    /\ UNCHANGED <<coordVars, credits, calls, nsub, ntok, nusr, nadm,
                   max_started, wave>>

Drains == 1..Len(running)

\* fair scheduling of the event loop and terminating computations: a
\* process_queue coroutine that can take its next step eventually takes it
WorkerStep ==
    \/ \E w \in BOOLEAN : process_queue_start(w)
    \/ \E i \in Drains, csv \in BOOLEAN : analysis_done(i, "ok", csv)
    \/ \E i \in Drains : deliver_done(i)
    \/ \E i \in Drains, ok \in BOOLEAN : refund_retry_done(i, ok)
    \/ \E i \in Drains : notify_done(i)
    \/ \E i \in Drains : sleep_done(i)

Next ==
    \/ \E t \in Tokens, u \in Users, k \in Kinds, ok1, ok2 \in BOOLEAN :
          \E ch \in ChatsOf(u) : (nsub < MaxSubmits /\ add_task(t, ch, u, k, ok1, ok2))
    \/ \E c \in BagToSet(calls), ok \in BOOLEAN : add_task_resume(c, ok)
    \/ \E w \in BOOLEAN : process_queue_start(w)
    \/ \E i \in Drains, csv \in BOOLEAN : analysis_done(i, "ok", csv)
    \/ \E i \in Drains : deliver_done(i)
    \/ \E i \in Drains, ok \in BOOLEAN : refund_retry_done(i, ok)
    \/ \E i \in Drains : notify_done(i)
    \/ \E i \in Drains : sleep_done(i)

Spec == Init /\ [][Next]_vars

\* the same coordinator in behaviours of at most MaxShortSubmits calls
NextShort ==
    \/ \E t \in Tokens, u \in Users, k \in Kinds, ok1, ok2 \in BOOLEAN :
          \E ch \in ChatsOf(u) :
             nsub < MaxShortSubmits /\ add_task(t, ch, u, k, ok1, ok2)
    \/ \E c \in BagToSet(calls), ok \in BOOLEAN : add_task_resume(c, ok)
    \/ WorkerStep

ShortSpec == Init /\ [][NextShort]_vars

\* a group chat a requester writes from: query.message.chat_id is the id
\* of the group, a negative number, and differs from query.from_user.id
GroupChatOf(user_id) == 0 - user_id

\* chat_ids.get(wait_user_id, wait_user_id)
TargetChat(rec, wait_user_id) ==
    IF \E p \in rec.chat_ids : p[1] = wait_user_id
    THEN (CHOOSE p \in rec.chat_ids : p[1] = wait_user_id)[2]
    ELSE wait_user_id

\* the coordinator with every requester writing from a group chat
NextGroup ==
    \/ \E t \in Tokens, u \in Users, k \in Kinds, ok1, ok2 \in BOOLEAN :
          nsub < MaxShortSubmits /\ add_task(t, GroupChatOf(u), u, k, ok1, ok2)
    \/ \E c \in BagToSet(calls), ok \in BOOLEAN : add_task_resume(c, ok)
    \/ WorkerStep

GroupSpec == Init /\ [][NextGroup]_vars

\* the coordinator with its status read at any time
NextStatus ==
    \/ NextShort
    \/ get_queue_status

StatusSpec == Init /\ [][NextStatus]_vars

\* the coordinator with a holder-data provider that can fail
NextProvider ==
    \/ \E t \in Tokens, u \in Users, k \in Kinds, ok1, ok2 \in BOOLEAN :
          \E ch \in ChatsOf(u) :
             nsub < MaxShortSubmits /\ add_task(t, ch, u, k, ok1, ok2)
    \/ \E c \in BagToSet(calls), ok \in BOOLEAN : add_task_resume(c, ok)
    \/ \E w \in BOOLEAN : process_queue_start(w)
    \/ \E i \in Drains, outcome \in AnalyzeOutcomes, csv \in BOOLEAN :
          analysis_done(i, outcome, csv)
    \/ \E i \in Drains : deliver_done(i)
    \/ \E i \in Drains, ok \in BOOLEAN : refund_retry_done(i, ok)
    \/ \E i \in Drains : notify_done(i)
    \/ \E i \in Drains : sleep_done(i)

ProviderSpec == Init /\ [][NextProvider]_vars

\* the coordinator with every requester holding paid-up credits and a
\* database that answers
InitFunded ==
    /\ Init
    /\ credits = [u \in Users |-> 11]

NextFunded ==
    \/ \E t \in Tokens, u \in Users, k \in Kinds :
          \E ch \in ChatsOf(u) :
             nsub < MaxLiveSubmits /\ add_task(t, ch, u, k, TRUE, TRUE)
    \/ \E c \in BagToSet(calls) : add_task_resume(c, TRUE)
    \/ WorkerStep

LiveSpec == InitFunded /\ [][NextFunded]_vars /\ WF_vars(WorkerStep)

\* ------------------------------------------------------------------------
\* WalletConnectionAnalyzer (src/wallet_analyzer.py): pure computations.
\* Python floats are modelled by exact fractions <<numerator, denominator>>
\* in lowest terms with a positive denominator.
\* ------------------------------------------------------------------------
RECURSIVE GCD(_, _)
GCD(a, b) == IF b = 0 THEN a ELSE GCD(b, a % b)

Abs(x) == IF x < 0 THEN -x ELSE x

Frac(n, d) ==
    LET g == GCD(Abs(n), d)
    IN  IF n = 0 THEN <<0, 1>> ELSE <<n \div g, d \div g>>

FAdd(a, b) == Frac(a[1] * b[2] + b[1] * a[2], a[2] * b[2])
FMul(a, b) == Frac(a[1] * b[1], a[2] * b[2])
FLe(a, b) == a[1] * b[2] <= b[1] * a[2]
FMin(a, b) == IF FLe(a, b) THEN a ELSE b
FInt(n) == <<n, 1>>

Min(a, b) == IF a < b THEN a ELSE b

\* the total_tx_count values of a holder record: an integer, a string such
\* as "2+", or a string that int() rejects
TxCounts ==
    {[form |-> f, n |-> k] : f \in {"int", "plus"}, k \in 0..MaxTx}
       \cup {[form |-> "bad", n |-> 0]}

\* _clean_tx_count: int(tx_count.replace('+', '')) for a string, else
\* int(tx_count) if tx_count else 0
CleanTxCount(tx_count) == tx_count.n

\* int() raises ValueError
CleanTxCountRaises(tx_count) == tx_count.form = "bad"

\* a ratio that takes two idle wallets to be alike
TxRatioIdleAlike(tx1, tx2) ==
    IF Max(tx1, tx2) > 0 THEN Frac(Min(tx1, tx2), Max(tx1, tx2)) ELSE FInt(1)

\* min(tx1, tx2) / max(tx1, tx2) if max(tx1, tx2) > 0 else 0
TxRatio(tx1, tx2) ==
    IF Max(tx1, tx2) > 0 THEN Frac(Min(tx1, tx2), Max(tx1, tx2)) ELSE FInt(0)

\* _calculate_tx_similarity
CalculateTxSimilarity(wallet1, wallet2) ==
    LET base_tx1 == CleanTxCount(wallet1.base_tx)
        base_tx2 == CleanTxCount(wallet2.base_tx)
        eth_tx1 == CleanTxCount(wallet1.eth_tx)
        eth_tx2 == CleanTxCount(wallet2.eth_tx)
    IN  IF \E tx \in {wallet1.base_tx, wallet2.base_tx, wallet1.eth_tx, wallet2.eth_tx} :
              CleanTxCountRaises(tx)
        THEN \* except (KeyError, ValueError, ZeroDivisionError): return 0.0
             FInt(0)
        ELSE LET base_ratio == TxRatio(base_tx1, base_tx2)
                 eth_ratio == TxRatio(eth_tx1, eth_tx2)
                 similarity == FAdd(FMul(base_ratio, Frac(7, 10)),
                                    FMul(eth_ratio, Frac(3, 10)))
                 both_active == wallet1.is_active_overall /\ wallet2.is_active_overall
             IN  FMul(similarity, IF both_active THEN Frac(12, 10) ELSE Frac(8, 10))

\* an age term whose bounds are inclusive
AgeTermInclusive(time_diff) ==
    IF time_diff <= 1 THEN Frac(4, 10)
    ELSE IF time_diff <= 7 THEN Frac(2, 10) ELSE FInt(0)

\* lines 297-300: if time_diff < 1: 0.4, elif time_diff < 7: 0.2
AgeTerm(time_diff) ==
    IF time_diff < 1 THEN Frac(4, 10)
    ELSE IF time_diff < 7 THEN Frac(2, 10) ELSE FInt(0)

\* lines 308-311: if balance_diff < 1: 0.2, elif balance_diff < 5: 0.1
BalanceTerm(balance_diff) ==
    IF balance_diff < 1 THEN Frac(2, 10)
    ELSE IF balance_diff < 5 THEN Frac(1, 10) ELSE FInt(0)

\* _calculate_connection_weight
CalculateConnectionWeight(wallet1, wallet2) ==
    LET time_diff == Abs(wallet1.wallet_age_days - wallet2.wallet_age_days)
        age == AgeTerm(time_diff)
        similarity == CalculateTxSimilarity(wallet1, wallet2)
        balance_diff == Abs(wallet1.balance_percentage - wallet2.balance_percentage)
        balance == BalanceTerm(balance_diff)
    IN  FAdd(FAdd(age, FMul(similarity, Frac(4, 10))), balance)

\* holder records as analyze_holder builds them, by the fields the weight reads
Wallets ==
    [wallet_age_days : AgeDays, base_tx : TxCounts, eth_tx : TxCounts,
     is_active_overall : BOOLEAN, balance_percentage : BalancePercents]

WeightEvent(wallet1, wallet2) ==
    [type |-> "weight", wallet1 |-> wallet1, wallet2 |-> wallet2,
     weight |-> CalculateConnectionWeight(wallet1, wallet2)]

calculate_connection_weight(wallet1, wallet2) ==
    /\ event' = WeightEvent(wallet1, wallet2)
    /\ UNCHANGED <<coordVars, credits, calls, nsub, ntok, nusr, nadm,
                   max_started, wave>>

NextWeight ==
    /\ event = NoEvent
    /\ \E wallet1, wallet2 \in Wallets : calculate_connection_weight(wallet1, wallet2)

\* the analyzer applied once to inputs of its domain, beside an idle
\* coordinator
InitAnalyzer ==
    /\ Init
    /\ credits = [u \in Users |-> 1]

WeightSpec == InitAnalyzer /\ [][NextWeight]_vars

\* ---- _calculate_risk_score ----

FSub(a, b) == FAdd(a, <<-b[1], b[2]>>)
FDiv(a, b) == Frac(a[1] * b[2], a[2] * b[1])

RECURSIVE SumSeq(_)
SumSeq(q) == IF q = <<>> THEN 0 ELSE Head(q) + SumSeq(Tail(q))

RECURSIVE FSumSeq(_)
FSumSeq(q) == IF q = <<>> THEN FInt(0) ELSE FAdd(Head(q), FSumSeq(Tail(q)))

RECURSIVE MaxSeq(_)
MaxSeq(q) == IF q = <<>> THEN 0 ELSE Max(Head(q), MaxSeq(Tail(q)))

\* the cluster sizes _find_clusters can return for at most MaxHolders
\* holders: every cluster has 2 addresses or more, no address is in two
\* clusters, larger clusters come first
ClusterSizeLists ==
    {q \in UNION {[1..k -> 2..MaxHolders] : k \in 0..(MaxHolders \div 2)} :
        /\ SumSeq(q) <= MaxHolders
        /\ \A i \in 1..(Len(q) - 1) : q[i] >= q[i + 1]}

\* the clusters of these sizes: lists of addresses, numbered in order
ClustersOfSizes(sizes) ==
    [i \in 1..Len(sizes) |->
        [j \in 1..sizes[i] |-> SumSeq(SubSeq(sizes, 1, i - 1)) + j]]

\* the score that is not capped at 40 points
ClusterScoreUncapped(cluster_ratio) == FMul(cluster_ratio, FInt(40))

\* cluster_score = min(cluster_ratio * 40, 40)
ClusterScore(cluster_ratio) == FMin(FMul(cluster_ratio, FInt(40)), FInt(40))

\* density_score = min(density * 30, 30)
DensityScore(density) == FMin(FMul(density, FInt(30)), FInt(30))

\* variance_score = min((size_variance / total_holders) * 30, 30)
VarianceScore(size_variance, total_holders) ==
    FMin(FMul(FDiv(size_variance, FInt(total_holders)), FInt(30)), FInt(30))

FLt(a, b) == ~FLe(b, a)

\* a level function whose lower bounds are exclusive
GetRiskLevelStrict(score) ==
    IF FLt(FInt(80), score) THEN "Extreme Danger"
    ELSE IF FLt(FInt(60), score) THEN "Elevated Threat"
    ELSE IF FLt(FInt(40), score) THEN "Moderate Concern"
    ELSE IF FLt(FInt(20), score) THEN "Minimal Risk"
    ELSE "Negligible Threat"

\* _get_risk_level (the labels without their emoji)
GetRiskLevel(score) ==
    IF FLe(FInt(80), score) THEN "Extreme Danger"
    ELSE IF FLe(FInt(60), score) THEN "Elevated Threat"
    ELSE IF FLe(FInt(40), score) THEN "Moderate Concern"
    ELSE IF FLe(FInt(20), score) THEN "Minimal Risk"
    ELSE "Negligible Threat"

\* a default structure labelled with the level of its score, 0
DefaultRiskScoreLevelled ==
    [score |-> FInt(0), largest_cluster_size |-> 0, num_clusters |-> 0,
     network_density |-> FInt(0), risk_level |-> GetRiskLevel(FInt(0)),
     components |-> [cluster_score |-> FInt(0), density_score |-> FInt(0),
                     variance_score |-> FInt(0)]]

\* _get_default_risk_score
DefaultRiskScore ==
    [score |-> FInt(0), largest_cluster_size |-> 0, num_clusters |-> 0,
     network_density |-> FInt(0), risk_level |-> "Unknown",
     components |-> [cluster_score |-> FInt(0), density_score |-> FInt(0),
                     variance_score |-> FInt(0)]]

\* a largest cluster that counts a lone holder as a cluster of one
LargestClusterOrOne(clusters) ==
    IF clusters = <<>> THEN 1
    ELSE MaxSeq([i \in 1..Len(clusters) |-> Len(clusters[i])])

\* max(len(cluster) for cluster in clusters) if clusters else 0
LargestCluster(clusters) ==
    IF clusters = <<>> THEN 0
    ELSE MaxSeq([i \in 1..Len(clusters) |-> Len(clusters[i])])

\* a count of the pairs that takes a holder to pair with itself
MaxPossibleConnectionsWithSelf(total_holders) ==
    (total_holders * (total_holders + 1)) \div 2

\* total_holders * (total_holders - 1) / 2
MaxPossibleConnections(total_holders) ==
    (total_holders * (total_holders - 1)) \div 2

CalculateRiskScore(clusters, total_holders) ==
    IF total_holders = 0
    THEN DefaultRiskScore
    ELSE LET cluster_sizes == [i \in 1..Len(clusters) |-> Len(clusters[i])]
             largest_cluster == LargestCluster(clusters)
             cluster_ratio == Frac(largest_cluster, total_holders)
             total_connections ==
                 SumSeq([i \in 1..Len(clusters) |->
                            (cluster_sizes[i] * (cluster_sizes[i] - 1)) \div 2])
             max_possible_connections == MaxPossibleConnections(total_holders)
             density == IF max_possible_connections > 0
                        THEN Frac(total_connections, max_possible_connections)
                        ELSE FInt(0)
             avg_cluster_size == IF Len(clusters) > 0
                                 THEN Frac(SumSeq(cluster_sizes), Len(clusters))
                                 ELSE FInt(0)
             size_variance ==
                 IF Len(clusters) > 0
                 THEN FDiv(FSumSeq([i \in 1..Len(clusters) |->
                                      FMul(FSub(FInt(cluster_sizes[i]), avg_cluster_size),
                                           FSub(FInt(cluster_sizes[i]), avg_cluster_size))]),
                           FInt(Len(clusters)))
                 ELSE FInt(0)
             cluster_score == ClusterScore(cluster_ratio)
             density_score == DensityScore(density)
             variance_score == VarianceScore(size_variance, total_holders)
             risk_score == FAdd(FAdd(cluster_score, density_score), variance_score)
         IN  [score |-> FMin(risk_score, FInt(100)),
              largest_cluster_size |-> largest_cluster,
              num_clusters |-> Len(clusters),
              network_density |-> density,
              risk_level |-> GetRiskLevel(risk_score),
              components |-> [cluster_score |-> cluster_score,
                              density_score |-> density_score,
                              variance_score |-> variance_score]]

RiskEvent(clusters, total_holders) ==
    [type |-> "risk", clusters |-> clusters, total_holders |-> total_holders,
     result |-> CalculateRiskScore(clusters, total_holders)]

calculate_risk_score(clusters, total_holders) ==
    /\ event' = RiskEvent(clusters, total_holders)
    /\ UNCHANGED <<coordVars, credits, calls, nsub, ntok, nusr, nadm,
                   max_started, wave>>

NextRisk ==
    /\ event = NoEvent
    /\ \E sizes \in ClusterSizeLists, total_holders \in 0..MaxHolders :
          calculate_risk_score(ClustersOfSizes(sizes), total_holders)

RiskSpec == InitAnalyzer /\ [][NextRisk]_vars

\* ---- _find_clusters ----

\* FInt(8)/10 as a fraction: the threshold 0.8
Threshold08 == Frac(8, 10)

\* holder records of a batch: an address and the fields the weight reads.
\* All were created on the same day with one transaction per chain, so a
\* pair weighs 0.88 or 1.08 when both are active, and else 0.72 (balances 5
\* percent apart) or 0.92 (equal balances)
BatchBalances == {0, 5}
BatchProfiles ==
    [wallet_age_days : {0},
     base_tx : {[form |-> "int", n |-> 1]}, eth_tx : {[form |-> "int", n |-> 1]},
     is_active_overall : BOOLEAN, balance_percentage : BatchBalances]

\* the address columns of the holder lists of length k; addresses are
\* numbered in the order of their first occurrence, and at most one holder
\* repeats the address of another
AddressColumns(k) ==
    {a \in [1..k -> 1..MaxBatch] :
        /\ \A i \in 1..k : a[i] <= 1 + MaxSeq([j \in 1..(i - 1) |-> a[j]])
        /\ Cardinality({a[i] : i \in 1..k}) >= k - 1}

BatchOf(a, p) ==
    [i \in 1..Len(a) |->
        [address |-> a[i], wallet_age_days |-> p[i].wallet_age_days,
         base_tx |-> p[i].base_tx, eth_tx |-> p[i].eth_tx,
         is_active_overall |-> p[i].is_active_overall,
         balance_percentage |-> p[i].balance_percentage]]

\* a finder that compares a candidate with the member added last
ComparedWithLast(holders, i, last) == holders[last]

\* the wallet a candidate is compared with: wallet1, the seed of the cluster
ComparedWith(holders, i, last) == holders[i]

\* a finder that forgets the wallets it has used
MarkUsedNever(used_wallets, address) == used_wallets

\* used_wallets.add(address)
MarkUsed(used_wallets, address) == used_wallets \cup {address}

\* lines 273-281: for wallet2 in holders[i+1:], from position j on
RECURSIVE FindClustersInner(_, _, _, _, _, _)
FindClustersInner(holders, i, j, last, current_cluster, used_wallets) ==
    IF j > Len(holders)
    THEN [cluster |-> current_cluster, used |-> used_wallets]
    ELSE IF holders[j].address \in used_wallets
    THEN FindClustersInner(holders, i, j + 1, last, current_cluster, used_wallets)
    ELSE IF FLe(Threshold08,
                CalculateConnectionWeight(ComparedWith(holders, i, last), holders[j]))
    THEN FindClustersInner(holders, i, j + 1, j,
                           Append(current_cluster, holders[j].address),
                           MarkUsed(used_wallets, holders[j].address))
    ELSE FindClustersInner(holders, i, j + 1, last, current_cluster, used_wallets)

\* lines 267-285: for i, wallet1 in enumerate(holders), from position i on
RECURSIVE FindClustersOuter(_, _, _, _)
FindClustersOuter(holders, i, clusters, used_wallets) ==
    IF i > Len(holders)
    THEN clusters
    ELSE IF holders[i].address \in used_wallets
    THEN FindClustersOuter(holders, i + 1, clusters, used_wallets)
    ELSE LET r == FindClustersInner(holders, i, i + 1, i, <<holders[i].address>>,
                                    MarkUsed(used_wallets, holders[i].address))
         IN  FindClustersOuter(holders, i + 1,
                               IF Len(r.cluster) > 1
                               THEN Append(clusters, r.cluster) ELSE clusters,
                               r.used)

\* sorted(clusters, key=len, reverse=True): a stable sort; InsertByLen puts
\* a cluster behind the clusters that are as long or longer
RECURSIVE InsertByLen(_, _)
InsertByLen(sorted, c) ==
    IF sorted = <<>> THEN <<c>>
    ELSE IF Len(Head(sorted)) >= Len(c)
    THEN <<Head(sorted)>> \o InsertByLen(Tail(sorted), c)
    ELSE <<c>> \o sorted

RECURSIVE SortByLenDesc(_)
SortByLenDesc(clusters) ==
    IF clusters = <<>> THEN <<>>
    ELSE InsertByLen(SortByLenDesc(SubSeq(clusters, 1, Len(clusters) - 1)),
                     clusters[Len(clusters)])

FindClusters(holders) == SortByLenDesc(FindClustersOuter(holders, 1, <<>>, {}))

ClustersEvent(holders) ==
    [type |-> "clusters", holders |-> holders, clusters |-> FindClusters(holders)]

find_clusters(holders) ==
    /\ event' = ClustersEvent(holders)
    /\ UNCHANGED <<coordVars, credits, calls, nsub, ntok, nusr, nadm,
                   max_started, wave>>

NextClusters ==
    /\ event = NoEvent
    /\ \E k \in 0..MaxBatch :
          \E a \in AddressColumns(k) :
              \E p \in [1..k -> BatchProfiles] : find_clusters(BatchOf(a, p))

ClusterSpec == InitAnalyzer /\ [][NextClusters]_vars

\* ---- _get_risk_level ----

\* the scores the level is asked for: the halves from 0 to MaxScore
Scores == {Frac(k, 2) : k \in 0..(2 * MaxScore)}

LevelEvent(score) == [type |-> "level", score |-> score, level |-> GetRiskLevel(score)]

get_risk_level(score) ==
    /\ event' = LevelEvent(score)
    /\ UNCHANGED <<coordVars, credits, calls, nsub, ntok, nusr, nadm,
                   max_started, wave>>

\* the level of a score, asked for directly or by the risk scorer
NextLevel ==
    \/ event = NoEvent /\ \E score \in Scores : get_risk_level(score)
    \/ NextRisk

LevelSpec == InitAnalyzer /\ [][NextLevel]_vars

\* ---- _analyze_creation_patterns ----

\* the timeStamp, in seconds, of the first transaction of a wallet
Stamps == {0, 60, 1800, 1801, 1860}

\* the outcome of the first-transaction lookup of a holder: resolved with a
\* timeStamp, or not resolved when the request fails or returns no
\* transaction
Lookups ==
    [resolved : {TRUE}, first_tx : Stamps] \cup [resolved : {FALSE}, first_tx : {0}]

\* holder lists with the fields the detector reads and the outcome of the
\* lookup; the holder at position i has address i
StampedHolders(k) == [1..k -> [balance_percentage : BatchBalances, lookup : Lookups]]

HolderAt(stamped, i) ==
    [address |-> i, balance_percentage |-> stamped[i].balance_percentage]

\* wallet_timestamps: the addresses whose lookup gave a timestamp
WalletTimestamps(stamped) ==
    [a \in {i \in 1..Len(stamped) : stamped[i].lookup.resolved}
        |-> stamped[a].lookup.first_tx]

\* abs(t1 - t2) / 60
TimeDiffMinutes(t1, t2) == Frac(Abs(t1 - t2), 60)

\* a window that excludes the thirtieth minute
WithinWindowStrict(time_diff_minutes) == FLt(time_diff_minutes, FInt(30))

\* time_diff_minutes <= 30
WithinWindow(time_diff_minutes) == FLe(time_diff_minutes, FInt(30))

CreationEntry(wallet1, wallet2, wallet_timestamps) ==
    [type |-> "creation",
     wallets |-> <<wallet1.address, wallet2.address>>,
     time_difference |-> TimeDiffMinutes(wallet_timestamps[wallet1.address],
                                         wallet_timestamps[wallet2.address]),
     combined_balance |-> wallet1.balance_percentage + wallet2.balance_percentage,
     timestamp1 |-> wallet_timestamps[wallet1.address],
     timestamp2 |-> wallet_timestamps[wallet2.address]]

\* lines 97-116: for wallet2 in holders[i+1:], from position j on
RECURSIVE CreationInner(_, _, _, _, _)
CreationInner(stamped, wallet_timestamps, i, j, patterns) ==
    IF j > Len(stamped)
    THEN patterns
    ELSE IF j \notin DOMAIN wallet_timestamps
    THEN CreationInner(stamped, wallet_timestamps, i, j + 1, patterns)
    ELSE IF WithinWindow(TimeDiffMinutes(wallet_timestamps[i], wallet_timestamps[j]))
    THEN CreationInner(stamped, wallet_timestamps, i, j + 1,
                       Append(patterns,
                              CreationEntry(HolderAt(stamped, i), HolderAt(stamped, j),
                                            wallet_timestamps)))
    ELSE CreationInner(stamped, wallet_timestamps, i, j + 1, patterns)

\* lines 92-116: for i, wallet1 in enumerate(holders), from position i on
RECURSIVE CreationOuter(_, _, _, _)
CreationOuter(stamped, wallet_timestamps, i, patterns) ==
    IF i > Len(stamped)
    THEN patterns
    ELSE IF i \notin DOMAIN wallet_timestamps
    THEN CreationOuter(stamped, wallet_timestamps, i + 1, patterns)
    ELSE CreationOuter(stamped, wallet_timestamps, i + 1,
                       CreationInner(stamped, wallet_timestamps, i, i + 1, patterns))

\* the order of the sort key (time_difference, -combined_balance)
CreationKeyLe(x, y) ==
    \/ FLt(x.time_difference, y.time_difference)
    \/ /\ x.time_difference = y.time_difference
       /\ (0 - x.combined_balance) <= (0 - y.combined_balance)

\* sorted(patterns, key=...): a stable sort; an entry goes behind the
\* entries whose key is not larger
RECURSIVE InsertByKey(_, _)
InsertByKey(sorted, x) ==
    IF sorted = <<>> THEN <<x>>
    ELSE IF CreationKeyLe(Head(sorted), x)
    THEN <<Head(sorted)>> \o InsertByKey(Tail(sorted), x)
    ELSE <<x>> \o sorted

RECURSIVE SortByKey(_)
SortByKey(patterns) ==
    IF patterns = <<>> THEN <<>>
    ELSE InsertByKey(SortByKey(SubSeq(patterns, 1, Len(patterns) - 1)),
                     patterns[Len(patterns)])

AnalyzeCreationPatterns(stamped) ==
    SortByKey(CreationOuter(stamped, WalletTimestamps(stamped), 1, <<>>))

CreationEvent(stamped) ==
    [type |-> "creation", holders |-> stamped,
     patterns |-> AnalyzeCreationPatterns(stamped)]

analyze_creation_patterns(stamped) ==
    /\ event' = CreationEvent(stamped)
    /\ UNCHANGED <<coordVars, credits, calls, nsub, ntok, nusr, nadm,
                   max_started, wave>>

NextCreation ==
    /\ event = NoEvent
    /\ \E k \in 0..MaxStamped : \E stamped \in StampedHolders(k) :
          analyze_creation_patterns(stamped)

CreationSpec == InitAnalyzer /\ [][NextCreation]_vars

\* ---- the connection analysis of a report ----

\* analyzer_queue.py line 332: num_holders = 50 if analysis_type == "deep" else 10
NumHoldersFor(analysis_type) == IF analysis_type = "deep" THEN 50 ELSE 10

\* analyze.py lines 79-85: self.wallet_analyzer is set only if
\* num_holders >= 50 and the constructor does not raise
WalletAnalyzerOf(num_holders, init_ok) == num_holders >= 50 /\ init_ok

\* get_top_holders returns holders[:num_holders] of the holders it finds
TopHolders(found, num_holders) == Min(found, num_holders)

\* a guard that takes any number of holder records
EnoughHoldersAlways(holders_analysis) == TRUE

\* len(holders_analysis) >= 50
EnoughHolders(holders_analysis) == holders_analysis >= 50

\* the outcomes of analyze_wallet_connections: a result, the empty
\* dictionary it returns when it catches an exception, or an exception of
\* the steps around it
WalletOutcomes == {"result", "empty", "raises"}

\* analyze.py lines 778-798: the connection step; invoked tells whether the
\* Wallet Connection Analyzer was called, "none" stands for None
ConnectionStep(wallet_analyzer, holders_analysis, wallet_outcome) ==
    IF wallet_analyzer /\ EnoughHolders(holders_analysis)
    THEN [invoked |-> TRUE,
          connection_analysis |-> IF wallet_outcome = "raises" THEN "none"
                                  ELSE wallet_outcome]
    ELSE [invoked |-> FALSE, connection_analysis |-> "none"]

\* analyze_token, as far as the connection analysis goes; dropped is the
\* number of top holders for which analyze_holder returns nothing
AnalyzeTokenConnections(num_holders, init_ok, outcome, found, dropped, wallet_outcome) ==
    IF outcome # "ok"
    THEN [invoked |-> FALSE, holders |-> 0,
          analysis |-> [error |-> TRUE, message |-> outcome]]
    ELSE LET top_holders == TopHolders(found, num_holders)
             holders_analysis == top_holders - Min(dropped, top_holders)
             step == ConnectionStep(WalletAnalyzerOf(num_holders, init_ok),
                                    holders_analysis, wallet_outcome)
         IN  [invoked |-> step.invoked, holders |-> holders_analysis,
              analysis |-> [contract_info |-> "info",
                            connection_analysis |-> step.connection_analysis]]

\* analyzer_queue.py lines 330-370: the analyzer is built for the task's
\* kind and the report takes analysis.get('connection_analysis')
ReportEvent(analysis_type, init_ok, outcome, found, dropped, wallet_outcome) ==
    LET r == AnalyzeTokenConnections(NumHoldersFor(analysis_type), init_ok, outcome,
                                     found, dropped, wallet_outcome)
    IN  [type |-> "report", analysis_type |-> analysis_type, init_ok |-> init_ok,
         outcome |-> outcome, found |-> found,
         holders |-> r.holders, invoked |-> r.invoked,
         connection_analysis |-> Get(r.analysis, "connection_analysis", "none")]

build_report(analysis_type, init_ok, outcome, found, dropped, wallet_outcome) ==
    /\ event' = ReportEvent(analysis_type, init_ok, outcome, found, dropped, wallet_outcome)
    /\ UNCHANGED <<coordVars, credits, calls, nsub, ntok, nusr, nadm,
                   max_started, wave>>

NextReport ==
    /\ event = NoEvent
    /\ \E analysis_type \in Kinds, init_ok \in BOOLEAN, outcome \in AnalyzeOutcomes,
          found \in 0..MaxFound, dropped \in 0..MaxDropped,
          wallet_outcome \in WalletOutcomes :
          build_report(analysis_type, init_ok, outcome, found, dropped, wallet_outcome)

ReportSpec == InitAnalyzer /\ [][NextReport]_vars

\* ---- _calculate_tx_similarity ----

\* holder records by the fields the similarity reads
ActivityWallets ==
    [base_tx : TxCounts, eth_tx : TxCounts, is_active_overall : BOOLEAN]

SimilarityEvent(wallet1, wallet2) ==
    [type |-> "similarity", wallet1 |-> wallet1, wallet2 |-> wallet2,
     similarity |-> CalculateTxSimilarity(wallet1, wallet2)]

calculate_tx_similarity(wallet1, wallet2) ==
    /\ event' = SimilarityEvent(wallet1, wallet2)
    /\ UNCHANGED <<coordVars, credits, calls, nsub, ntok, nusr, nadm,
                   max_started, wave>>

NextSimilarity ==
    /\ event = NoEvent
    /\ \E wallet1, wallet2 \in ActivityWallets : calculate_tx_similarity(wallet1, wallet2)

SimilaritySpec == InitAnalyzer /\ [][NextSimilarity]_vars

\* ---- _calculate_connection_weight on the bounds of its terms ----

\* holder records whose ages lie 0, 1, 6 or 7 days and whose balances lie
\* 0, 1, 4 or 5 percent apart
TermWallets ==
    [wallet_age_days : AgeDays,
     base_tx : {[form |-> "int", n |-> 1], [form |-> "int", n |-> 2]},
     eth_tx : {[form |-> "int", n |-> 1]},
     is_active_overall : BOOLEAN, balance_percentage : BalancePercents]

NextTerms ==
    /\ event = NoEvent
    /\ \E wallet1, wallet2 \in TermWallets : calculate_connection_weight(wallet1, wallet2)

TermSpec == InitAnalyzer /\ [][NextTerms]_vars

\* ---- _analyze_transaction_patterns ----

\* holder lists with the fields the detector reads; has_chains tells
\* whether activity_info holds both 'base_chain' and 'ethereum'; the holder
\* at position i has address i
PairedHolders(k) ==
    [1..k -> [has_chains : BOOLEAN,
              base_tx : {[form |-> "int", n |-> 1]},
              eth_tx : {[form |-> "int", n |-> 1], [form |-> "int", n |-> 2]},
              is_active_overall : BOOLEAN, balance_percentage : BatchBalances]]

\* a detector that keeps a similarity of 0.8
RetainedInclusive(similarity) == FLe(Threshold08, similarity)

\* if similarity > 0.8
Retained(similarity) == FLt(Threshold08, similarity)

TransactionEntry(holders, i, j) ==
    [type |-> "transaction", wallets |-> <<i, j>>,
     similarity |-> CalculateTxSimilarity(holders[i], holders[j]),
     combined_balance |-> holders[i].balance_percentage + holders[j].balance_percentage]

\* lines 125-145: the pairs in the order of the two loops, as a list of the
\* entries appended for the pairs from (i, j) on
RECURSIVE TransactionPairs(_, _, _)
TransactionPairs(holders, i, j) ==
    IF i > Len(holders) THEN <<>>
    ELSE IF j > Len(holders) THEN TransactionPairs(holders, i + 1, i + 2)
    ELSE IF ~(holders[i].has_chains /\ holders[j].has_chains)
    THEN TransactionPairs(holders, i, j + 1)
    ELSE IF Retained(CalculateTxSimilarity(holders[i], holders[j]))
    THEN <<TransactionEntry(holders, i, j)>> \o TransactionPairs(holders, i, j + 1)
    ELSE TransactionPairs(holders, i, j + 1)

\* the order of the sort key (similarity, combined_balance): x is not
\* smaller than y
TransactionKeyGe(x, y) ==
    \/ FLt(y.similarity, x.similarity)
    \/ /\ x.similarity = y.similarity
       /\ x.combined_balance >= y.combined_balance

\* sorted(patterns, key=..., reverse=True): descending and stable; an
\* entry goes behind the entries whose key is not smaller
RECURSIVE InsertByKeyDesc(_, _)
InsertByKeyDesc(sorted, x) ==
    IF sorted = <<>> THEN <<x>>
    ELSE IF TransactionKeyGe(Head(sorted), x)
    THEN <<Head(sorted)>> \o InsertByKeyDesc(Tail(sorted), x)
    ELSE <<x>> \o sorted

RECURSIVE SortByKeyDesc(_)
SortByKeyDesc(patterns) ==
    IF patterns = <<>> THEN <<>>
    ELSE InsertByKeyDesc(SortByKeyDesc(SubSeq(patterns, 1, Len(patterns) - 1)),
                         patterns[Len(patterns)])

AnalyzeTransactionPatterns(holders) == SortByKeyDesc(TransactionPairs(holders, 1, 2))

TransactionEvent(holders) ==
    [type |-> "transaction", holders |-> holders,
     patterns |-> AnalyzeTransactionPatterns(holders)]

analyze_transaction_patterns(holders) ==
    /\ event' = TransactionEvent(holders)
    /\ UNCHANGED <<coordVars, credits, calls, nsub, ntok, nusr, nadm,
                   max_started, wave>>

NextTransaction ==
    /\ event = NoEvent
    /\ \E k \in 0..MaxPaired : \E holders \in PairedHolders(k) :
          analyze_transaction_patterns(holders)

TransactionSpec == InitAnalyzer /\ [][NextTransaction]_vars

\* ---- _analyze_recent_transactions ----

\* the addresses with transactions on the chain, and the analysed batch:
\* the addresses of the holders, in their order; the third address belongs
\* to no holder
ChainAddresses == {1, 2, 3}
RecentBatch == <<1, 2>>

\* a transaction of the chain: recent tells whether its timeStamp lies in
\* the last seven days, contract_call whether its input is not '0x'; value
\* in ether. Its place in the list of the chain stands for its hash
ChainTxs ==
    {t \in [from : ChainAddresses, to : ChainAddresses, value : {0, 1},
            recent : BOOLEAN, contract_call : BOOLEAN] : t.from # t.to}

\* _is_contract_transaction
IsContractTransaction(tx) == tx.contract_call

\* lines 174-179: the transactions of a wallet's list that are kept
RecentTxs(txs, address, holder_addresses) ==
    SelectSeq([n \in 1..Len(txs) |-> [hash |-> n, tx |-> txs[n]]],
              LAMBDA x : /\ (x.tx.from = address \/ x.tx.to = address)
                         /\ x.tx.recent
                         /\ x.tx.to \in holder_addresses
                         /\ ~IsContractTransaction(x.tx))

\* lines 181-193: the entries appended for a list of kept transactions
RECURSIVE RecentEntries(_)
RecentEntries(recent_txs) ==
    IF recent_txs = <<>> THEN <<>>
    ELSE LET x == Head(recent_txs)
         IN  (IF x.tx.value > 0
              THEN <<[wallets |-> <<x.tx.from, x.tx.to>>, value_eth |-> x.tx.value,
                      tx_hash |-> x.hash]>>
              ELSE <<>>) \o RecentEntries(Tail(recent_txs))

\* lines 157-196: the entries of all holders whose list could be fetched
RECURSIVE RecentPatterns(_, _, _, _)
RecentPatterns(holders, txs, fetched, i) ==
    IF i > Len(holders) THEN <<>>
    ELSE (IF fetched[i]
          THEN RecentEntries(RecentTxs(txs, holders[i],
                                       {holders[h] : h \in 1..Len(holders)}))
          ELSE <<>>) \o RecentPatterns(holders, txs, fetched, i + 1)

\* tuple(sorted(pattern['wallets']))
PairOf(wallets) ==
    IF wallets[1] <= wallets[2] THEN wallets ELSE <<wallets[2], wallets[1]>>

\* lines 202-216: tx_pairs and its aggregation, in the order in which the
\* pairs occur first
RECURSIVE Aggregate(_, _)
Aggregate(patterns, aggregated) ==
    IF patterns = <<>> THEN aggregated
    ELSE LET pair == PairOf(Head(patterns).wallets)
             at == {e \in 1..Len(aggregated) : aggregated[e].wallets = pair}
         IN  Aggregate(Tail(patterns),
                 IF at = {}
                 THEN Append(aggregated,
                             [wallets |-> pair, value_eth |-> Head(patterns).value_eth,
                              frequency |-> 1])
                 ELSE [e \in 1..Len(aggregated) |->
                          IF e \in at
                          THEN [aggregated[e] EXCEPT
                                   !.value_eth = @ + Head(patterns).value_eth,
                                   !.frequency = @ + 1]
                          ELSE aggregated[e]])

\* the order of the sort key (frequency, value_eth): x is not smaller than y
RecentKeyGe(x, y) ==
    \/ x.frequency > y.frequency
    \/ x.frequency = y.frequency /\ x.value_eth >= y.value_eth

\* sorted(aggregated_patterns, key=..., reverse=True)
RECURSIVE InsertByRecentKey(_, _)
InsertByRecentKey(sorted, x) ==
    IF sorted = <<>> THEN <<x>>
    ELSE IF RecentKeyGe(Head(sorted), x)
    THEN <<Head(sorted)>> \o InsertByRecentKey(Tail(sorted), x)
    ELSE <<x>> \o sorted

RECURSIVE SortByRecentKey(_)
SortByRecentKey(patterns) ==
    IF patterns = <<>> THEN <<>>
    ELSE InsertByRecentKey(SortByRecentKey(SubSeq(patterns, 1, Len(patterns) - 1)),
                           patterns[Len(patterns)])

AnalyzeRecentTransactions(holders, txs, fetched) ==
    SortByRecentKey(Aggregate(RecentPatterns(holders, txs, fetched, 1), <<>>))

RecentEvent(holders, txs, fetched) ==
    [type |-> "recent", holders |-> holders, txs |-> txs, fetched |-> fetched,
     patterns |-> AnalyzeRecentTransactions(holders, txs, fetched)]

analyze_recent_transactions(holders, txs, fetched) ==
    /\ event' = RecentEvent(holders, txs, fetched)
    /\ UNCHANGED <<coordVars, credits, calls, nsub, ntok, nusr, nadm,
                   max_started, wave>>

NextRecent ==
    /\ event = NoEvent
    /\ \E n \in 0..MaxTransfers : \E txs \in [1..n -> ChainTxs] :
          \E fetched \in [1..Len(RecentBatch) -> BOOLEAN] :
              analyze_recent_transactions(RecentBatch, txs, fetched)

RecentSpec == InitAnalyzer /\ [][NextRecent]_vars

\* ------------------------------------------------------------------------
\* Properties
\* ------------------------------------------------------------------------

\* the tasks that are queued or being processed
Busy(dr) == dr.pc \notin {"none", "sleep"}
RunningTasks == {running[i].task : i \in {j \in Drains : Busy(running[j])}}
QueuedTasks == {queue[i] : i \in 1..Len(queue)}

\* C1: for every admitted task, the credits deducted from its requester
\* minus the credits added back for it are 0 or exactly the task's cost.
C1_CreditConservation ==
    /\ \A t \in QueuedTasks : t.paid = CreditsRequired(t.analysis_type)
    /\ \A i \in Drains : Busy(running[i]) =>
          running[i].task.paid - running[i].refund
             \in {0, CreditsRequired(running[i].task.analysis_type)}
    /\ event.type = "task" =>
          event.paid - event.refund \in {0, CreditsRequired(event.kind)}

\* C2: an add_task call that finds the requester's balance below the cost of
\* the analysis returns false and changes neither the ledger, nor the queue,
\* nor the in-flight records - whether the token is in flight or not.
C2_InsufficientRejected ==
    [][(event'.type = "call" /\ event'.ret # "pending"
          /\ Insufficient(credits[event'.user], CreditsRequired(event'.kind)))
       => (/\ event'.ret = "false"
           /\ credits' = credits
           /\ queue' = queue
           /\ active_tokens' = active_tokens
           /\ records' = records)]_vars

\* C3: every admitted task ends with exactly one of: the report delivered to
\* its requester, or the requester refunded and sent a failure notice.
EndDelivered == event.user \in event.got
EndRefunded == event.refund > 0 /\ event.notices # {}
C3_ExactlyOneOutcome ==
    event.type = "task" => (EndDelivered /\ ~EndRefunded) \/ (~EndDelivered /\ EndRefunded)

\* C4: at most one task per (token, analysis kind) is queued or running.
C4_SingleFlight ==
    \A t1, t2 \in QueuedTasks \cup RunningTasks :
        (t1.token_address = t2.token_address /\ t1.analysis_type = t2.analysis_type)
           => t1 = t2

\* C5: an add_task call for a token whose in-flight record has the same
\* analysis kind attaches the requester and returns true, deducts nothing,
\* appends nothing to the queue and creates no process_queue task.
AttachCase ==
    /\ nsub' = nsub + 1
    /\ active_tokens[event'.token] # 0
    /\ records[active_tokens[event'.token]].analysis_type = event'.kind
C5_AttachFree ==
    [][AttachCase =>
          /\ event'.ret = "true"
          /\ event'.paid = 0
          /\ event'.user \in records'[active_tokens[event'.token]].users
          /\ credits' = credits
          /\ queue' = queue
          /\ calls' = calls
          /\ active_tokens' = active_tokens
          /\ created' = created /\ lockwait' = lockwait /\ running' = running]_vars
C5_Witness ==
    /\ event.type = "call" /\ event.path = "attach" /\ event.ret = "true"
    /\ \E r \in Sids : records[r] # None /\ event.user \in records[r].users
                       /\ Cardinality(records[r].users) = 2

\* C6: when a second requester submits the (token, kind) of a computation
\* in flight, that requester is debited the cost exactly once at its own
\* admission, and both requesters receive the report of the computation.
OtherAttachCase ==
    /\ AttachCase
    /\ records[active_tokens[event'.token]].users \ {event'.user} # {}
C6_BothDebitedBothServed ==
    [][/\ OtherAttachCase => event'.paid = CreditsRequired(event'.kind)
       /\ (event'.type = "task" /\ event'.res = "ok"
             /\ Cardinality(event'.wave) >= 2) => event'.wave \subseteq event'.got]_vars

\* C7: when a task completes successfully, every requester attached to its
\* record has been delivered its report.
C7_AllAttachedDelivered ==
    (event.type = "task" /\ event.res = "ok") => event.wave \subseteq event.got

\* C8: tasks are started in the order of their append: no queued task was
\* appended before a task that has already been started.
C8_Fifo ==
    /\ \A t \in QueuedTasks : t.id > max_started
    /\ \A i, j \in 1..Len(queue) : i < j => queue[i].id < queue[j].id
    /\ \A t \in RunningTasks : t.id = max_started
C8_Witness ==
    /\ Len(running) = 1 /\ running[1].pc = "analyze" /\ running[1].task.id = 1
    /\ Len(queue) = 1 /\ queue[1].id = 2
    /\ created >= 1

\* C9: at most one process_queue coroutine is inside its while loop, hence
\* at most one analysis computation is in progress.
C9_OneDrain ==
    /\ Len(running) <= 1
    /\ Cardinality({i \in Drains : running[i].pc = "analyze"}) <= 1
    /\ lockwait = 0
C9_Witness ==
    /\ event.type = "start" /\ event.decision = "return"
    /\ Len(running) = 1 /\ running[1].pc = "analyze"

\* C10: while the queue is non-empty a process_queue coroutine is running or
\* created, the loop ends only on an empty queue, and every queued task is
\* eventually popped.
C10_NoTaskStranded ==
    /\ [](queue # <<>> => (running # <<>> \/ created > 0))
    /\ [][Len(running') < Len(running) => queue = <<>>]_vars
    /\ \A id \in Sids : (\E t \in QueuedTasks : t.id = id) ~> (max_started >= id)
C10_Witness ==
    /\ nadm >= 2 /\ max_started = nadm
    /\ queue = <<>> /\ running = <<>> /\ ~processing

\* C11: when a task enters the failure path, every requester in the
\* credits_deducted set of the token's record is credited the task's cost and
\* sent the failure notice (unless the ledger refused the credit), and when
\* the failed task ends the token has no in-flight record.
C11_FailureRefundsAllDebited ==
    [][\A i \in Drains :
         /\ (/\ running[i].pc \in {"analyze", "deliver"}
             /\ Len(running') = Len(running)
             /\ running'[i].pc = "notify"
             /\ active_tokens[running[i].task.token_address] # 0)
            => LET task == running[i].task
                   rec == records[active_tokens[task.token_address]]
                   cost == CreditsRequired(task.analysis_type)
               IN  \A u \in rec.credits_deducted :
                      /\ task.chat_id \in ChatsOf(u)
                      /\ running'[i].notice = "refunded"
                      /\ credits'[u] \in {credits[u], AddCredits(credits[u], cost)}
                      /\ credits'[u] = credits[u] => running'[i].refund = running[i].refund
         /\ (/\ running[i].pc = "notify"
             /\ Len(running') = Len(running)
             /\ running'[i].pc = "sleep")
            => active_tokens'[running[i].task.token_address] = 0]_vars

\* C12: a failed task has refunded exactly what was deducted for it (unless
\* the ledger refused the credit), and never more than its cost.
LedgerRefused == "refunded" \in event.notices /\ event.refund = 0
C12_RefundsEqualDebits ==
    (event.type = "task" /\ event.res = "failed")
       => /\ event.refund <= CreditsRequired(event.kind)
          /\ ~LedgerRefused => event.refund = event.paid

\* C13: a task whose holder-data fetch failed is on the refund-and-notify
\* path: it never proceeds to caching and delivering a report.
FetchFailed(dr) == dr.analysis # None /\ Get(dr.analysis, "message", "none") = "fetch_error"
C13_FetchFailureRefunds ==
    \A i \in Drains :
        FetchFailed(running[i]) => running[i].pc \in {"notify", "refund_retry"}

\* C14: a task whose address is not a token contract is not handled on the
\* exception path, and what is delivered for it carries the "not a valid
\* token" message of analyze_token.
NotAToken(dr) == dr.analysis # None /\ Get(dr.analysis, "message", "none") = "not_a_token"
C14_NotATokenSurfaced ==
    \A i \in Drains :
        NotAToken(running[i]) =>
           /\ running[i].pc \notin {"notify", "refund_retry"}
           /\ running[i].pc = "deliver" =>
                 Get(running[i].report, "message", "none") = "not_a_token"

\* C15: when add_credits has reported failure for a refund, the requester is
\* sent the "contact support" notice and not the "refunded" one, and is
\* still in the record's credits_deducted set.
CreditRefused(dr) == dr.pc = "notify" /\ dr.notice # "none" /\ dr.refund = 0
C15_RefundFailureSurfaced ==
    \A i \in Drains :
        CreditRefused(running[i]) =>
           LET task == running[i].task
               arid == active_tokens[task.token_address]
           IN  /\ running[i].notice = "support"
               /\ arid # 0
               /\ task.user_id \in records[arid].credits_deducted

\* C16: every requester's balance is a non-negative integer in every
\* reachable state.
C16_BalanceNonNegative == \A u \in Users : credits[u] \in Nat
C16_Witness ==
    /\ event.type = "call" /\ event.paid > 0
    /\ credits[event.user] = 0

\* C17: a get_queue_status call changes nothing the coordinator or the
\* ledger holds, and reports the queue length, the processing flag, the
\* current task, the number of tokens in flight and the number of cached
\* results of the state it is called in.
C17_StatusPureRead ==
    [][event'.type = "status" =>
          /\ UNCHANGED <<queue, processing, current_task, active_tokens, records,
                         analysis_results, analysis_cache, analysis_lock,
                         credits, calls, created, lockwait, running>>
          /\ event'.status.queue_length = Len(queue')
          /\ event'.status.processing = processing'
          /\ event'.status.current_task = current_task'
          /\ event'.status.active_tokens =
                Cardinality({t \in Tokens : active_tokens'[t] # 0})
          /\ event'.status.cached_analyses = Cardinality(analysis_cache')]_vars
C17_Witness ==
    /\ event.type = "status"
    /\ Len(running) = 1 /\ running[1].pc = "analyze"
    /\ event.status.queue_length >= 1 /\ event.status.processing
    /\ event.status.current_task = running[1].task

\* C18: the result stored for a requester changes only to the report a
\* fan-out is delivering to that requester, and a task that ends as failed
\* has stored no result for anyone.
C18_StoredIsLastDelivered ==
    /\ [][\A u \in Users :
            analysis_results'[u] # analysis_results[u] =>
               \E i \in 1..Len(running') :
                  /\ running'[i].pc = "deliver"
                  /\ running'[i].cur = u
                  /\ running'[i].report = analysis_results'[u]]_vars
    /\ [](event.type = "task" /\ event.res = "failed" => event.got = {})

\* C19: the connection weight of every pair of holder records lies in [0, 1].
C19_WeightInUnitInterval ==
    event.type = "weight" => FLe(FInt(0), event.weight) /\ FLe(event.weight, FInt(1))

\* C20: for every cluster list of the cluster finder and every holder count,
\* each component of the risk score lies within its cap (40, 30, 30), and
\* the score is the sum of the components capped at 100, within [0, 100].
C20_RiskScoreBounded ==
    event.type = "risk" =>
       LET r == event.result
           c == r.components
           total == FAdd(FAdd(c.cluster_score, c.density_score), c.variance_score)
       IN  /\ FLe(FInt(0), c.cluster_score) /\ FLe(c.cluster_score, FInt(40))
           /\ FLe(FInt(0), c.density_score) /\ FLe(c.density_score, FInt(30))
           /\ FLe(FInt(0), c.variance_score) /\ FLe(c.variance_score, FInt(30))
           /\ FLe(FInt(0), r.score) /\ FLe(r.score, FInt(100))
           /\ r.score = FMin(total, FInt(100))
C20_Witness ==
    /\ event.type = "risk"
    /\ event.total_holders >= 1
    /\ event.result.largest_cluster_size > event.total_holders
    /\ event.result.components.cluster_score = FInt(40)
    /\ event.result.components.density_score = FInt(30)

\* C21: a holder joins a cluster iff it comes after the cluster's seed, is
\* unused when the seed is processed and weighs 0.8 or more with the seed -
\* never through another member: for [A, B, C] with A-B and B-C connected
\* and A-C not, the result is [[A, B]].
DistinctAddresses(h) ==
    \A i, j \in 1..Len(h) : i # j => h[i].address # h[j].address
Connected(a, b) == FLe(Threshold08, CalculateConnectionWeight(a, b))
PosOf(h, address) == CHOOSE i \in 1..Len(h) : h[i].address = address
Members(c) == {c[k] : k \in 2..Len(c)}
C21_SeedOnlyClustering ==
    (event.type = "clusters" /\ DistinctAddresses(event.holders)) =>
       LET h == event.holders
           cl == event.clusters
           IsMember(a) == \E c \in 1..Len(cl) : a \in Members(cl[c])
           UsedBefore(a, i) ==
               \E c \in 1..Len(cl) : PosOf(h, cl[c][1]) < i /\ a \in Members(cl[c])
           Joined(i, j) ==
               \E c \in 1..Len(cl) :
                   cl[c][1] = h[i].address /\ h[j].address \in Members(cl[c])
       IN  /\ \A i, j \in 1..Len(h) :
                 Joined(i, j) <=> /\ i < j
                                  /\ ~IsMember(h[i].address)
                                  /\ ~UsedBefore(h[j].address, i)
                                  /\ Connected(h[i], h[j])
           /\ (/\ Len(h) = 3
               /\ Connected(h[1], h[2]) /\ Connected(h[2], h[3])
               /\ ~Connected(h[1], h[3]))
              => cl = <<(<<h[1].address, h[2].address>>)>>
C21_Witness ==
    /\ event.type = "clusters" /\ DistinctAddresses(event.holders)
    /\ Len(event.holders) = 3
    /\ Connected(event.holders[1], event.holders[2])
    /\ Connected(event.holders[2], event.holders[3])
    /\ ~Connected(event.holders[1], event.holders[3])
    /\ event.clusters = <<(<<1, 2>>)>>

\* C22: every returned cluster has two addresses or more, no address occurs
\* twice in the result, every clustered address is the address of an input
\* holder, and the clusters come in non-increasing order of size.
C22_ClustersWellFormed ==
    event.type = "clusters" =>
       LET h == event.holders
           cl == event.clusters
       IN  /\ \A c \in 1..Len(cl) : Len(cl[c]) >= 2
           /\ \A c, d \in 1..Len(cl) : \A k \in 1..Len(cl[c]), l \in 1..Len(cl[d]) :
                 cl[c][k] = cl[d][l] => (c = d /\ k = l)
           /\ \A c \in 1..Len(cl) : \A k \in 1..Len(cl[c]) :
                 \E i \in 1..Len(h) : h[i].address = cl[c][k]
           /\ \A c \in 1..(Len(cl) - 1) : Len(cl[c]) >= Len(cl[c + 1])
C22_Witness ==
    /\ event.type = "clusters"
    /\ Len(event.clusters) = 2
    /\ Len(event.clusters[1]) = 3 /\ Len(event.clusters[2]) = 2
    /\ PosOf(event.holders, event.clusters[2][1])
          < PosOf(event.holders, event.clusters[1][1])

\* C23: the level of a score is "Extreme Danger" from 80 on, "Elevated
\* Threat" from 60 on, "Moderate Concern" from 40 on, "Minimal Risk" from 20
\* on and "Negligible Threat" below 20; the bounds 80, 60, 40 and 20 belong
\* to the higher level. The level the risk scorer reports is the level of
\* the score it reports.
LevelByBounds(score, level) ==
    /\ level = "Extreme Danger" <=> FLe(FInt(80), score)
    /\ level = "Elevated Threat" <=> (FLe(FInt(60), score) /\ FLt(score, FInt(80)))
    /\ level = "Moderate Concern" <=> (FLe(FInt(40), score) /\ FLt(score, FInt(60)))
    /\ level = "Minimal Risk" <=> (FLe(FInt(20), score) /\ FLt(score, FInt(40)))
    /\ level = "Negligible Threat" <=> FLt(score, FInt(20))
C23_LevelByInclusiveBounds ==
    /\ event.type = "level" => LevelByBounds(event.score, event.level)
    /\ (event.type = "risk" /\ event.total_holders > 0) =>
          LevelByBounds(event.result.score, event.result.risk_level)
C23_Witness ==
    /\ event.type = "level"
    /\ event.score = FInt(60) /\ event.level = "Elevated Threat"

\* C24: the risk scorer never divides by zero: for no holders it returns the
\* default structure (score 0, level "Unknown", every component 0, largest
\* cluster 0, no clusters), and for one holder the density is 0.
C24_NoDivisionByZero ==
    event.type = "risk" =>
       LET r == event.result
       IN  /\ r.score[2] # 0 /\ r.network_density[2] # 0
           /\ r.components.cluster_score[2] # 0
           /\ r.components.density_score[2] # 0
           /\ r.components.variance_score[2] # 0
           /\ event.total_holders = 0 =>
                 /\ r.score = FInt(0) /\ r.risk_level = "Unknown"
                 /\ r.largest_cluster_size = 0 /\ r.num_clusters = 0
                 /\ r.network_density = FInt(0)
                 /\ r.components.cluster_score = FInt(0)
                 /\ r.components.density_score = FInt(0)
                 /\ r.components.variance_score = FInt(0)
           /\ event.total_holders = 1 =>
                 /\ r.network_density = FInt(0)
                 /\ r.components.density_score = FInt(0)
C24_Witness ==
    /\ event.type = "risk"
    /\ event.total_holders = 0
    /\ event.clusters = <<>>
    /\ event.result.risk_level = "Unknown"

\* C25: with no clusters and one holder or more (ten, for one) the risk
\* scorer returns score 0, every component 0 and the level "Negligible
\* Threat".
C25_NoClustersNoRisk ==
    (event.type = "risk" /\ event.clusters = <<>> /\ event.total_holders >= 1) =>
       /\ event.result.score = FInt(0)
       /\ event.result.components.cluster_score = FInt(0)
       /\ event.result.components.density_score = FInt(0)
       /\ event.result.components.variance_score = FInt(0)
       /\ event.result.risk_level = "Negligible Threat"
C25_Witness ==
    /\ event.type = "risk"
    /\ event.clusters = <<>>
    /\ event.total_holders = 10
    /\ event.result.score = FInt(0)

\* C26: with one cluster that holds all n holders, n >= 2 (ten, for one),
\* the cluster score is 40, the density score 30, the variance score 0, the
\* score 70 and the level "Elevated Threat".
C26_FullyClustered ==
    (/\ event.type = "risk"
     /\ event.total_holders >= 2
     /\ Len(event.clusters) = 1
     /\ Len(event.clusters[1]) = event.total_holders) =>
       /\ event.result.components.cluster_score = FInt(40)
       /\ event.result.components.density_score = FInt(30)
       /\ event.result.components.variance_score = FInt(0)
       /\ event.result.score = FInt(70)
       /\ event.result.risk_level = "Elevated Threat"
C26_Witness ==
    /\ event.type = "risk"
    /\ event.total_holders = 10
    /\ Len(event.clusters) = 1
    /\ Len(event.clusters[1]) = 10
    /\ event.result.score = FInt(70)

\* C27: the creation-pattern detector returns one entry for a pair of
\* holders iff both have a first-transaction timestamp and the two lie at
\* most 30 minutes (1800 seconds) apart, no entry when every pair lies
\* further apart, and the entries in ascending order of the time
\* difference, entries of equal difference in descending order of the
\* combined balance.
CloseInTime(h, i, j) ==
    /\ h[i].lookup.resolved /\ h[j].lookup.resolved
    /\ Abs(h[i].lookup.first_tx - h[j].lookup.first_tx) <= 1800
C27_CreationPairsWithinWindow ==
    event.type = "creation" =>
       LET h == event.holders
           p == event.patterns
           Pairs == {<<i, j>> \in (1..Len(h)) \X (1..Len(h)) : i < j}
       IN  /\ \A e \in 1..Len(p) : p[e].wallets \in Pairs
           /\ \A e, f \in 1..Len(p) : p[e].wallets = p[f].wallets => e = f
           /\ \A w \in Pairs :
                 (\E e \in 1..Len(p) : p[e].wallets = w) <=> CloseInTime(h, w[1], w[2])
           /\ (\A w \in Pairs : ~CloseInTime(h, w[1], w[2])) => p = <<>>
           /\ \A e \in 1..(Len(p) - 1) :
                 \/ FLt(p[e].time_difference, p[e + 1].time_difference)
                 \/ /\ p[e].time_difference = p[e + 1].time_difference
                    /\ p[e].combined_balance >= p[e + 1].combined_balance
           /\ \A e \in 1..Len(p) :
                 /\ p[e].time_difference =
                      Frac(Abs(h[p[e].wallets[1]].lookup.first_tx
                                 - h[p[e].wallets[2]].lookup.first_tx), 60)
                 /\ p[e].combined_balance =
                      h[p[e].wallets[1]].balance_percentage
                        + h[p[e].wallets[2]].balance_percentage
C27_Witness ==
    /\ event.type = "creation"
    /\ Len(event.holders) = 3
    /\ Len(event.patterns) = 3
    /\ event.patterns[1].wallets = <<1, 3>>
    /\ event.patterns[2].wallets = <<2, 3>>
    /\ event.patterns[3].wallets = <<1, 2>>
    /\ event.patterns[2].time_difference = FInt(30)
    /\ event.patterns[3].time_difference = FInt(30)
    /\ event.patterns[2].combined_balance > event.patterns[3].combined_balance

\* C28: a report holds a connection analysis only for a deep task with 50
\* analysed holders or more: a quick task never invokes the Wallet
\* Connection Analyzer, and a deep task with fewer than 50 holder records
\* completes with no connection analysis.
C28_ConnectionsOnlyDeepFifty ==
    event.type = "report" =>
       /\ (event.invoked \/ event.connection_analysis # "none") =>
             (event.analysis_type = "deep" /\ event.holders >= 50)
       /\ event.analysis_type = "quick" =>
             (~event.invoked /\ event.connection_analysis = "none")
       /\ (event.analysis_type = "deep" /\ event.holders < 50) =>
             event.connection_analysis = "none"
C28_Witness ==
    /\ event.type = "report"
    /\ event.analysis_type = "deep" /\ event.init_ok /\ event.outcome = "ok"
    /\ event.found >= 50 /\ event.holders = 49
    /\ ~event.invoked /\ event.connection_analysis = "none"

\* C29: the transaction-pattern similarity of every pair of holder records
\* lies in [0, 1], pairs of two active wallets with the same transaction
\* counts on both chains included.
C29_SimilarityInUnitInterval ==
    event.type = "similarity" =>
       FLe(FInt(0), event.similarity) /\ FLe(event.similarity, FInt(1))

\* C30: for readable transaction counts the similarity is
\* (0.7 * r_base + 0.3 * r_eth) * f, where r is the smaller count of a chain
\* over the larger (0 when both are 0) and f is 1.2 when both wallets are
\* active and 0.8 when neither or exactly one of them is.
Readable(wallet) == wallet.base_tx.form # "bad" /\ wallet.eth_tx.form # "bad"
C30_SimilarityFormula ==
    (event.type = "similarity" /\ Readable(event.wallet1) /\ Readable(event.wallet2)) =>
       LET a == event.wallet1
           b == event.wallet2
           \* tenths of the ratio mix times the common denominator of r_base, r_eth
           lb == IF a.base_tx.n <= b.base_tx.n THEN a.base_tx.n ELSE b.base_tx.n
           hb == IF a.base_tx.n <= b.base_tx.n THEN b.base_tx.n ELSE a.base_tx.n
           le == IF a.eth_tx.n <= b.eth_tx.n THEN a.eth_tx.n ELSE b.eth_tx.n
           he == IF a.eth_tx.n <= b.eth_tx.n THEN b.eth_tx.n ELSE a.eth_tx.n
           db == IF hb = 0 THEN 1 ELSE hb
           de == IF he = 0 THEN 1 ELSE he
           f == CASE a.is_active_overall /\ b.is_active_overall -> 12
                  [] ~a.is_active_overall /\ ~b.is_active_overall -> 8
                  [] a.is_active_overall # b.is_active_overall -> 8
       IN  \* sim = ((7 lb / db + 3 le / de) / 10) * (f / 10)
           event.similarity[1] * (100 * db * de)
              = event.similarity[2] * ((7 * lb * de + 3 * le * db) * f)
C30_Witness ==
    /\ event.type = "similarity"
    /\ event.wallet1.is_active_overall /\ ~event.wallet2.is_active_overall
    /\ event.wallet1.base_tx = [form |-> "plus", n |-> 2]
    /\ event.wallet2.base_tx = [form |-> "int", n |-> 2]
    /\ event.wallet1.eth_tx.n = 0 /\ event.wallet2.eth_tx.n = 0
    /\ Readable(event.wallet1) /\ Readable(event.wallet2)
    /\ event.similarity = Frac(56, 100)

\* C31: the weight of a pair is the sum of an age term (0.4 for ages less
\* than 1 day apart, 0.2 for less than 7 days, else 0), 0.4 times the
\* similarity, and a balance term (0.2 for balances less than 1 percent
\* apart, 0.1 for less than 5, else 0); 1 day apart earns 0.2, 7 days 0.
C31_WeightIsSumOfTerms ==
    event.type = "weight" =>
       LET a == event.wallet1
           b == event.wallet2
           days == Abs(a.wallet_age_days - b.wallet_age_days)
           percent == Abs(a.balance_percentage - b.balance_percentage)
           \* the terms in hundredths
           age == CASE days = 0 -> 40
                    [] days >= 1 /\ days <= 6 -> 20
                    [] days >= 7 -> 0
           balance == CASE percent = 0 -> 20
                        [] percent >= 1 /\ percent <= 4 -> 10
                        [] percent >= 5 -> 0
           sim == CalculateTxSimilarity(a, b)
       IN  event.weight[1] * (100 * sim[2])
              = event.weight[2] * ((age + balance) * sim[2] + 40 * sim[1])
C31_Witness ==
    /\ event.type = "weight"
    /\ Abs(event.wallet1.wallet_age_days - event.wallet2.wallet_age_days) = 1
    /\ Abs(event.wallet1.balance_percentage - event.wallet2.balance_percentage) = 5
    /\ ~event.wallet1.is_active_overall
    /\ event.wallet1.base_tx = event.wallet2.base_tx
    /\ event.weight = Frac(52, 100)

\* C32: the transaction-pattern detector keeps exactly the pairs of holders
\* whose similarity is greater than 0.8 - a pair at 0.8 is dropped - and
\* returns them in descending order of the similarity, entries of equal
\* similarity in descending order of the combined balance.
SimilarityAbove(h, i, j) ==
    /\ h[i].has_chains /\ h[j].has_chains
    /\ LET sim == CalculateTxSimilarity(h[i], h[j])
       IN  10 * sim[1] > 8 * sim[2]
C32_SimilarPairsRetained ==
    event.type = "transaction" =>
       LET h == event.holders
           p == event.patterns
           Pairs == {<<i, j>> \in (1..Len(h)) \X (1..Len(h)) : i < j}
       IN  /\ \A e \in 1..Len(p) : p[e].wallets \in Pairs
           /\ \A e, f \in 1..Len(p) : p[e].wallets = p[f].wallets => e = f
           /\ \A w \in Pairs :
                 (\E e \in 1..Len(p) : p[e].wallets = w) <=> SimilarityAbove(h, w[1], w[2])
           /\ \A e \in 1..Len(p) :
                 /\ p[e].similarity =
                      CalculateTxSimilarity(h[p[e].wallets[1]], h[p[e].wallets[2]])
                 /\ p[e].combined_balance =
                      h[p[e].wallets[1]].balance_percentage
                        + h[p[e].wallets[2]].balance_percentage
           /\ \A e \in 1..(Len(p) - 1) :
                 \/ FLt(p[e + 1].similarity, p[e].similarity)
                 \/ /\ p[e].similarity = p[e + 1].similarity
                    /\ p[e].combined_balance >= p[e + 1].combined_balance
C32_Witness ==
    /\ event.type = "transaction"
    /\ Len(event.holders) = 3
    /\ ~event.holders[2].is_active_overall
    /\ CalculateTxSimilarity(event.holders[2], event.holders[3]) = Threshold08
    /\ Len(event.patterns) = 1
    /\ event.patterns[1].wallets = <<1, 3>>

\* C33: every entry of the recent-transfer detector is a pair of two
\* holders of the batch; its frequency is the number of the transfers
\* between the two (recent, no contract call, value above 0) and its value
\* their sum, a transfer found in the lists of both wallets counted once;
\* the entries come in descending order of (frequency, value).
TransfersBetween(txs, pair) ==
    {n \in 1..Len(txs) :
        /\ {txs[n].from, txs[n].to} = {pair[1], pair[2]}
        /\ txs[n].recent /\ ~txs[n].contract_call /\ txs[n].value > 0}
RECURSIVE SumValues(_, _)
SumValues(txs, ns) ==
    IF ns = {} THEN 0
    ELSE LET n == CHOOSE x \in ns : TRUE
         IN  txs[n].value + SumValues(txs, ns \ {n})
C33_RecentTransfersCountedOnce ==
    event.type = "recent" =>
       LET p == event.patterns
           batch == {event.holders[h] : h \in 1..Len(event.holders)}
       IN  /\ \A e \in 1..Len(p) :
                 /\ p[e].wallets[1] \in batch /\ p[e].wallets[2] \in batch
                 /\ p[e].frequency = Cardinality(TransfersBetween(event.txs, p[e].wallets))
                 /\ p[e].value_eth = SumValues(event.txs, TransfersBetween(event.txs, p[e].wallets))
           /\ \A e \in 1..(Len(p) - 1) :
                 \/ p[e].frequency > p[e + 1].frequency
                 \/ /\ p[e].frequency = p[e + 1].frequency
                    /\ p[e].value_eth >= p[e + 1].value_eth

\* C34: when a task ends, as a success or as a failure, its token is left
\* without an in-flight record; hence no record remains when no coroutine
\* is in the loop and the queue is empty, and the next call for any token
\* takes the path of a new task: it is debited the cost once, appended to
\* the queue and given a new record, or refused without a debit.
Quiet == running = <<>> /\ queue = <<>>
C34_RecordRemovedAtEnd ==
    /\ [][\A i \in 1..Len(running) :
            (Len(running') = Len(running) /\ Busy(running[i])
               /\ running'[i].pc = "sleep") =>
                  active_tokens'[running[i].task.token_address] = 0]_vars
    /\ [](Quiet => \A t \in Tokens : active_tokens[t] = 0)
    /\ [][(Quiet /\ event'.type = "call") =>
            LET u == event'.user
                cost == CreditsRequired(event'.kind)
            IN  /\ event'.path = "new"
                /\ event'.ret \in {"true", "false"}
                /\ event'.ret = "true" =>
                      /\ credits'[u] = credits[u] - cost
                      /\ nadm' = nadm + 1
                      /\ Len(queue') = 1 /\ queue'[1].id = nadm'
                      /\ active_tokens'[event'.token] = nadm'
                /\ event'.ret = "false" =>
                      (credits' = credits /\ queue' = <<>>)]_vars
C34_Witness ==
    /\ event.type = "call" /\ event.path = "new" /\ event.ret = "true"
    /\ event.token = 1
    /\ nadm = 2 /\ max_started = 1
    /\ Len(queue) = 1 /\ running = <<>>
    /\ active_tokens[1] = 2

\* C35: whenever a fan-out is delivering a report to a requester, the chat
\* it delivers to is the chat that requester made its call from, be it the
\* initiator of the task or a requester attached to it.
C35_DeliveredToOwnChat ==
    \A i \in 1..Len(running) :
        running[i].pc = "deliver" =>
           TargetChat(records[running[i].rid], running[i].cur)
              = GroupChatOf(running[i].cur)

\* C36: one computation delivers its report to a requester at most once: a
\* fan-out never starts a delivery to a requester it has already delivered
\* to, and every requester it has delivered to is in results_sent of the
\* record it iterates, however often that requester has called for the
\* same token and kind meanwhile.
C36_DeliveredAtMostOnce ==
    \A i \in 1..Len(running) :
        running[i].rid # 0 =>
           /\ running[i].got \subseteq records[running[i].rid].results_sent
           /\ running[i].pc = "deliver" => running[i].cur \notin running[i].got

\* a requester calls again for the same token and kind while the fan-out
\* is suspended in the delivery to it
C36_Witness ==
    /\ event.type = "call" /\ event.path = "attach"
    /\ \E i \in 1..Len(running) :
          /\ running[i].pc = "deliver"
          /\ running[i].cur = event.user
          /\ running[i].task.token_address = event.token
          /\ running[i].report.analysis_type = event.kind

\* C37: a call for a token that is in flight with the other analysis kind,
\* when it is admitted at once, appends one queue entry and costs the caller
\* the price of its own kind, once; and every computation of that token that
\* is under way still finds the requesters attached to it in the record of
\* the token.
C37_OtherKindIndependent ==
    [][(/\ nsub' = nsub + 1
        /\ event'.type = "call" /\ event'.path = "new" /\ event'.ret = "true"
        /\ active_tokens[event'.token] # 0)
       => (/\ Len(queue') = Len(queue) + 1
           /\ event'.paid = CreditsRequired(event'.kind)
           /\ credits'[event'.user]
                 = credits[event'.user] - CreditsRequired(event'.kind)
           /\ \A i \in 1..Len(running) :
                 (running[i].pc = "analyze"
                    /\ running[i].task.token_address = event'.token)
                 => wave[running[i].task.id]
                       \subseteq records'[active_tokens'[event'.token]].users)]_vars

\* C38: every task that waits in the queue or is being analysed has a record
\* under its token, of the task's analysis kind, whose users and
\* credits_deducted contain the task's initiator.
HasOwnRecord(task) ==
    LET rid == active_tokens[task.token_address]
    IN  /\ rid # 0
        /\ records[rid].analysis_type = task.analysis_type
        /\ task.user_id \in records[rid].users
        /\ task.user_id \in records[rid].credits_deducted

C38_TaskHasOwnRecord ==
    /\ \A k \in 1..Len(queue) : HasOwnRecord(queue[k])
    /\ \A i \in 1..Len(running) :
          running[i].pc = "analyze" => HasOwnRecord(running[i].task)

\* C39: a task whose fan-out has delivered a report does not take the
\* failure path afterwards, whatever calls attach requesters to the record
\* meanwhile: no process_queue coroutine is in the refund or in the failure
\* notice of a task that has delivered to some requester.
C39_FanOutSurvivesAttach ==
    \A i \in 1..Len(running) :
        running[i].pc \in {"refund_retry", "notify"} => running[i].got = {}

\* C40: a report is delivered only to requesters who asked for its kind of
\* analysis. The requesters of a record all called with the record's kind
\* (lines 116-118 and 194-200), and the initiator of a task called with the
\* task's kind; so whenever a fan-out is delivering, the report's kind is that
\* of the record it iterates, or the receiver is the task's own initiator.
C40_DeliveredKindIsAskedKind ==
    \A i \in 1..Len(running) :
        running[i].pc = "deliver" =>
           \/ running[i].cur = running[i].task.user_id
           \/ running[i].report.analysis_type
                 = records[running[i].rid].analysis_type

====
